---------------------------- MODULE Spec2Model ----------------------------
(***************************************************************************)
(* A model of bidscoin/readphysio.py: readparsefile (the line parser that  *)
(* builds the acquisition map or a channel trace) and readphysio (the      *)
(* assembler that cross-checks UUIDs, builds the ACQ mask and prunes       *)
(* inactive channels).                                                     *)
(*                                                                         *)
(* A token is the sequence of its characters, so that str.isdigit and      *)
(* int() are computed from the text.  A line is given by the structure     *)
(* that lines 78-86 and 124 extract from it:                               *)
(*   kind = "empty"  : the raw line is '' (dropped by the filter, line 78) *)
(*   kind = "assign" : the stripped line holds '='; varname is the first   *)
(*                     '='-separated part, items the remaining parts       *)
(*   kind = "data"   : anything else; items is line.split()                *)
(***************************************************************************)
EXTENDS Integers, Sequences, FiniteSets, TLC

VARIABLES
    \* one call of readparsefile, line by line
    logdatatype,        \* parameter logdatatype
    expectedsamples,    \* parameter expectedsamples
    nlines,             \* len(lines), empty lines included
    loc,                \* the local variables of readparsefile
    status,             \* "idle" | "parsing" | "returned" | "raised"
    hist,               \* the data rows handled so far (lines 131-181), in order,
                        \* each with the sampletime in force when it was handled
    \* one call of readphysio
    pc,                 \* position in readphysio
    input,              \* what the parameter fn points to, and the log files it holds
    found,              \* foundECG, foundRESP, foundPULS, foundEXT
    files,              \* fnINFO, fnECG, fnRESP, fnPULS, fnEXT (line sequences)
    info,               \* the tuple returned for the INFO buffer
    chan,               \* ECG, RESP, PULS, EXT as returned, with their UUIDs
    physio              \* the returned dict, and how the call ended

vars == <<logdatatype, expectedsamples, nlines, loc, status, hist,
          pc, input, found, files, info, chan, physio>>

parsevars == <<logdatatype, expectedsamples, nlines, loc, status, hist>>
physiovars == <<pc, input, found, files, info, chan, physio>>

-----------------------------------------------------------------------------
(* Program constants *)

\* line 42
expectedversion == <<"E", "J", "A", "_", "1">>

\* line 140: the number of header lines subtracted in the legacy correction
LegacyHeaderLines == 11

\* line 331: padding at the end of the traces
Padding == 8

\* line 125: data rows are padded to this many columns
NrColumns == 5

Kinds == {"ACQUISITION_INFO", "ECG", "RESP", "PULS", "EXT"}
ChannelKinds == <<"ECG", "RESP", "PULS", "EXT">>

\* The characters of the strings the code compares tokens with
Chars(s) ==
    CASE s = "ACQUISITION_INFO" -> <<"A","C","Q","U","I","S","I","T","I","O","N","_","I","N","F","O">>
      [] s = "ECG"  -> <<"E","C","G">>
      [] s = "RESP" -> <<"R","E","S","P">>
      [] s = "PULS" -> <<"P","U","L","S">>
      [] s = "EXT"  -> <<"E","X","T">>
      [] s = "ECG1" -> <<"E","C","G","1">>
      [] s = "ECG2" -> <<"E","C","G","2">>
      [] s = "ECG3" -> <<"E","C","G","3">>
      [] s = "ECG4" -> <<"E","C","G","4">>
      [] s = "EXT2" -> <<"E","X","T","2">>

\* lines 167, 169 and 173, 175
ECGChannels == <<Chars("ECG1"), Chars("ECG2"), Chars("ECG3"), Chars("ECG4")>>
EXTChannels == <<Chars("EXT"), Chars("EXT2")>>

-----------------------------------------------------------------------------
(* Tokens: str.isdigit and int().  A character is a one-character string;  *)
(* a character outside ASCII is written as its code point, "U+00B2" (four  *)
(* to six hexadecimal digits)                                               *)

\* the decimal digits (Unicode 14 category Nd, Numeric_Type=Decimal): 66 runs
\* of the ten digits 0..9 of one script, in the order of their values
DecimalRuns ==
    <<
     <<"0", "1", "2", "3", "4", "5", "6", "7", "8", "9">>,
     <<"U+0660", "U+0661", "U+0662", "U+0663", "U+0664", "U+0665", "U+0666", "U+0667", "U+0668", "U+0669">>,
     <<"U+06F0", "U+06F1", "U+06F2", "U+06F3", "U+06F4", "U+06F5", "U+06F6", "U+06F7", "U+06F8", "U+06F9">>,
     <<"U+07C0", "U+07C1", "U+07C2", "U+07C3", "U+07C4", "U+07C5", "U+07C6", "U+07C7", "U+07C8", "U+07C9">>,
     <<"U+0966", "U+0967", "U+0968", "U+0969", "U+096A", "U+096B", "U+096C", "U+096D", "U+096E", "U+096F">>,
     <<"U+09E6", "U+09E7", "U+09E8", "U+09E9", "U+09EA", "U+09EB", "U+09EC", "U+09ED", "U+09EE", "U+09EF">>,
     <<"U+0A66", "U+0A67", "U+0A68", "U+0A69", "U+0A6A", "U+0A6B", "U+0A6C", "U+0A6D", "U+0A6E", "U+0A6F">>,
     <<"U+0AE6", "U+0AE7", "U+0AE8", "U+0AE9", "U+0AEA", "U+0AEB", "U+0AEC", "U+0AED", "U+0AEE", "U+0AEF">>,
     <<"U+0B66", "U+0B67", "U+0B68", "U+0B69", "U+0B6A", "U+0B6B", "U+0B6C", "U+0B6D", "U+0B6E", "U+0B6F">>,
     <<"U+0BE6", "U+0BE7", "U+0BE8", "U+0BE9", "U+0BEA", "U+0BEB", "U+0BEC", "U+0BED", "U+0BEE", "U+0BEF">>,
     <<"U+0C66", "U+0C67", "U+0C68", "U+0C69", "U+0C6A", "U+0C6B", "U+0C6C", "U+0C6D", "U+0C6E", "U+0C6F">>,
     <<"U+0CE6", "U+0CE7", "U+0CE8", "U+0CE9", "U+0CEA", "U+0CEB", "U+0CEC", "U+0CED", "U+0CEE", "U+0CEF">>,
     <<"U+0D66", "U+0D67", "U+0D68", "U+0D69", "U+0D6A", "U+0D6B", "U+0D6C", "U+0D6D", "U+0D6E", "U+0D6F">>,
     <<"U+0DE6", "U+0DE7", "U+0DE8", "U+0DE9", "U+0DEA", "U+0DEB", "U+0DEC", "U+0DED", "U+0DEE", "U+0DEF">>,
     <<"U+0E50", "U+0E51", "U+0E52", "U+0E53", "U+0E54", "U+0E55", "U+0E56", "U+0E57", "U+0E58", "U+0E59">>,
     <<"U+0ED0", "U+0ED1", "U+0ED2", "U+0ED3", "U+0ED4", "U+0ED5", "U+0ED6", "U+0ED7", "U+0ED8", "U+0ED9">>,
     <<"U+0F20", "U+0F21", "U+0F22", "U+0F23", "U+0F24", "U+0F25", "U+0F26", "U+0F27", "U+0F28", "U+0F29">>,
     <<"U+1040", "U+1041", "U+1042", "U+1043", "U+1044", "U+1045", "U+1046", "U+1047", "U+1048", "U+1049">>,
     <<"U+1090", "U+1091", "U+1092", "U+1093", "U+1094", "U+1095", "U+1096", "U+1097", "U+1098", "U+1099">>,
     <<"U+17E0", "U+17E1", "U+17E2", "U+17E3", "U+17E4", "U+17E5", "U+17E6", "U+17E7", "U+17E8", "U+17E9">>,
     <<"U+1810", "U+1811", "U+1812", "U+1813", "U+1814", "U+1815", "U+1816", "U+1817", "U+1818", "U+1819">>,
     <<"U+1946", "U+1947", "U+1948", "U+1949", "U+194A", "U+194B", "U+194C", "U+194D", "U+194E", "U+194F">>,
     <<"U+19D0", "U+19D1", "U+19D2", "U+19D3", "U+19D4", "U+19D5", "U+19D6", "U+19D7", "U+19D8", "U+19D9">>,
     <<"U+1A80", "U+1A81", "U+1A82", "U+1A83", "U+1A84", "U+1A85", "U+1A86", "U+1A87", "U+1A88", "U+1A89">>,
     <<"U+1A90", "U+1A91", "U+1A92", "U+1A93", "U+1A94", "U+1A95", "U+1A96", "U+1A97", "U+1A98", "U+1A99">>,
     <<"U+1B50", "U+1B51", "U+1B52", "U+1B53", "U+1B54", "U+1B55", "U+1B56", "U+1B57", "U+1B58", "U+1B59">>,
     <<"U+1BB0", "U+1BB1", "U+1BB2", "U+1BB3", "U+1BB4", "U+1BB5", "U+1BB6", "U+1BB7", "U+1BB8", "U+1BB9">>,
     <<"U+1C40", "U+1C41", "U+1C42", "U+1C43", "U+1C44", "U+1C45", "U+1C46", "U+1C47", "U+1C48", "U+1C49">>,
     <<"U+1C50", "U+1C51", "U+1C52", "U+1C53", "U+1C54", "U+1C55", "U+1C56", "U+1C57", "U+1C58", "U+1C59">>,
     <<"U+A620", "U+A621", "U+A622", "U+A623", "U+A624", "U+A625", "U+A626", "U+A627", "U+A628", "U+A629">>,
     <<"U+A8D0", "U+A8D1", "U+A8D2", "U+A8D3", "U+A8D4", "U+A8D5", "U+A8D6", "U+A8D7", "U+A8D8", "U+A8D9">>,
     <<"U+A900", "U+A901", "U+A902", "U+A903", "U+A904", "U+A905", "U+A906", "U+A907", "U+A908", "U+A909">>,
     <<"U+A9D0", "U+A9D1", "U+A9D2", "U+A9D3", "U+A9D4", "U+A9D5", "U+A9D6", "U+A9D7", "U+A9D8", "U+A9D9">>,
     <<"U+A9F0", "U+A9F1", "U+A9F2", "U+A9F3", "U+A9F4", "U+A9F5", "U+A9F6", "U+A9F7", "U+A9F8", "U+A9F9">>,
     <<"U+AA50", "U+AA51", "U+AA52", "U+AA53", "U+AA54", "U+AA55", "U+AA56", "U+AA57", "U+AA58", "U+AA59">>,
     <<"U+ABF0", "U+ABF1", "U+ABF2", "U+ABF3", "U+ABF4", "U+ABF5", "U+ABF6", "U+ABF7", "U+ABF8", "U+ABF9">>,
     <<"U+FF10", "U+FF11", "U+FF12", "U+FF13", "U+FF14", "U+FF15", "U+FF16", "U+FF17", "U+FF18", "U+FF19">>,
     <<"U+104A0", "U+104A1", "U+104A2", "U+104A3", "U+104A4", "U+104A5", "U+104A6", "U+104A7", "U+104A8", "U+104A9">>,
     <<"U+10D30", "U+10D31", "U+10D32", "U+10D33", "U+10D34", "U+10D35", "U+10D36", "U+10D37", "U+10D38", "U+10D39">>,
     <<"U+11066", "U+11067", "U+11068", "U+11069", "U+1106A", "U+1106B", "U+1106C", "U+1106D", "U+1106E", "U+1106F">>,
     <<"U+110F0", "U+110F1", "U+110F2", "U+110F3", "U+110F4", "U+110F5", "U+110F6", "U+110F7", "U+110F8", "U+110F9">>,
     <<"U+11136", "U+11137", "U+11138", "U+11139", "U+1113A", "U+1113B", "U+1113C", "U+1113D", "U+1113E", "U+1113F">>,
     <<"U+111D0", "U+111D1", "U+111D2", "U+111D3", "U+111D4", "U+111D5", "U+111D6", "U+111D7", "U+111D8", "U+111D9">>,
     <<"U+112F0", "U+112F1", "U+112F2", "U+112F3", "U+112F4", "U+112F5", "U+112F6", "U+112F7", "U+112F8", "U+112F9">>,
     <<"U+11450", "U+11451", "U+11452", "U+11453", "U+11454", "U+11455", "U+11456", "U+11457", "U+11458", "U+11459">>,
     <<"U+114D0", "U+114D1", "U+114D2", "U+114D3", "U+114D4", "U+114D5", "U+114D6", "U+114D7", "U+114D8", "U+114D9">>,
     <<"U+11650", "U+11651", "U+11652", "U+11653", "U+11654", "U+11655", "U+11656", "U+11657", "U+11658", "U+11659">>,
     <<"U+116C0", "U+116C1", "U+116C2", "U+116C3", "U+116C4", "U+116C5", "U+116C6", "U+116C7", "U+116C8", "U+116C9">>,
     <<"U+11730", "U+11731", "U+11732", "U+11733", "U+11734", "U+11735", "U+11736", "U+11737", "U+11738", "U+11739">>,
     <<"U+118E0", "U+118E1", "U+118E2", "U+118E3", "U+118E4", "U+118E5", "U+118E6", "U+118E7", "U+118E8", "U+118E9">>,
     <<"U+11950", "U+11951", "U+11952", "U+11953", "U+11954", "U+11955", "U+11956", "U+11957", "U+11958", "U+11959">>,
     <<"U+11C50", "U+11C51", "U+11C52", "U+11C53", "U+11C54", "U+11C55", "U+11C56", "U+11C57", "U+11C58", "U+11C59">>,
     <<"U+11D50", "U+11D51", "U+11D52", "U+11D53", "U+11D54", "U+11D55", "U+11D56", "U+11D57", "U+11D58", "U+11D59">>,
     <<"U+11DA0", "U+11DA1", "U+11DA2", "U+11DA3", "U+11DA4", "U+11DA5", "U+11DA6", "U+11DA7", "U+11DA8", "U+11DA9">>,
     <<"U+16A60", "U+16A61", "U+16A62", "U+16A63", "U+16A64", "U+16A65", "U+16A66", "U+16A67", "U+16A68", "U+16A69">>,
     <<"U+16AC0", "U+16AC1", "U+16AC2", "U+16AC3", "U+16AC4", "U+16AC5", "U+16AC6", "U+16AC7", "U+16AC8", "U+16AC9">>,
     <<"U+16B50", "U+16B51", "U+16B52", "U+16B53", "U+16B54", "U+16B55", "U+16B56", "U+16B57", "U+16B58", "U+16B59">>,
     <<"U+1D7CE", "U+1D7CF", "U+1D7D0", "U+1D7D1", "U+1D7D2", "U+1D7D3", "U+1D7D4", "U+1D7D5", "U+1D7D6", "U+1D7D7">>,
     <<"U+1D7D8", "U+1D7D9", "U+1D7DA", "U+1D7DB", "U+1D7DC", "U+1D7DD", "U+1D7DE", "U+1D7DF", "U+1D7E0", "U+1D7E1">>,
     <<"U+1D7E2", "U+1D7E3", "U+1D7E4", "U+1D7E5", "U+1D7E6", "U+1D7E7", "U+1D7E8", "U+1D7E9", "U+1D7EA", "U+1D7EB">>,
     <<"U+1D7EC", "U+1D7ED", "U+1D7EE", "U+1D7EF", "U+1D7F0", "U+1D7F1", "U+1D7F2", "U+1D7F3", "U+1D7F4", "U+1D7F5">>,
     <<"U+1D7F6", "U+1D7F7", "U+1D7F8", "U+1D7F9", "U+1D7FA", "U+1D7FB", "U+1D7FC", "U+1D7FD", "U+1D7FE", "U+1D7FF">>,
     <<"U+1E140", "U+1E141", "U+1E142", "U+1E143", "U+1E144", "U+1E145", "U+1E146", "U+1E147", "U+1E148", "U+1E149">>,
     <<"U+1E2F0", "U+1E2F1", "U+1E2F2", "U+1E2F3", "U+1E2F4", "U+1E2F5", "U+1E2F6", "U+1E2F7", "U+1E2F8", "U+1E2F9">>,
     <<"U+1E950", "U+1E951", "U+1E952", "U+1E953", "U+1E954", "U+1E955", "U+1E956", "U+1E957", "U+1E958", "U+1E959">>,
     <<"U+1FBF0", "U+1FBF1", "U+1FBF2", "U+1FBF3", "U+1FBF4", "U+1FBF5", "U+1FBF6", "U+1FBF7", "U+1FBF8", "U+1FBF9">>
    >>

DecimalChars == {DecimalRuns[r][i] : r \in 1..Len(DecimalRuns), i \in 1..10}

\* the digits that are no decimal digits (Numeric_Type=Digit): superscripts,
\* subscripts, circled and parenthesized digits, ...
OtherDigits ==
    {
     "U+00B2", "U+00B3", "U+00B9", "U+1369", "U+136A", "U+136B", "U+136C", "U+136D",
     "U+136E", "U+136F", "U+1370", "U+1371", "U+19DA", "U+2070", "U+2074", "U+2075",
     "U+2076", "U+2077", "U+2078", "U+2079", "U+2080", "U+2081", "U+2082", "U+2083",
     "U+2084", "U+2085", "U+2086", "U+2087", "U+2088", "U+2089", "U+2460", "U+2461",
     "U+2462", "U+2463", "U+2464", "U+2465", "U+2466", "U+2467", "U+2468", "U+2474",
     "U+2475", "U+2476", "U+2477", "U+2478", "U+2479", "U+247A", "U+247B", "U+247C",
     "U+2488", "U+2489", "U+248A", "U+248B", "U+248C", "U+248D", "U+248E", "U+248F",
     "U+2490", "U+24EA", "U+24F5", "U+24F6", "U+24F7", "U+24F8", "U+24F9", "U+24FA",
     "U+24FB", "U+24FC", "U+24FD", "U+24FF", "U+2776", "U+2777", "U+2778", "U+2779",
     "U+277A", "U+277B", "U+277C", "U+277D", "U+277E", "U+2780", "U+2781", "U+2782",
     "U+2783", "U+2784", "U+2785", "U+2786", "U+2787", "U+2788", "U+278A", "U+278B",
     "U+278C", "U+278D", "U+278E", "U+278F", "U+2790", "U+2791", "U+2792", "U+10A40",
     "U+10A41", "U+10A42", "U+10A43", "U+10E60", "U+10E61", "U+10E62", "U+10E63", "U+10E64",
     "U+10E65", "U+10E66", "U+10E67", "U+10E68", "U+11052", "U+11053", "U+11054", "U+11055",
     "U+11056", "U+11057", "U+11058", "U+11059", "U+1105A", "U+1F100", "U+1F101", "U+1F102",
     "U+1F103", "U+1F104", "U+1F105", "U+1F106", "U+1F107", "U+1F108", "U+1F109", "U+1F10A"
    }

\* the characters str.isdigit accepts
DigitChars == DecimalChars \cup OtherDigits

\* the value of a decimal digit
DigitVal(c) ==
    (CHOOSE i \in 1..10 : \E r \in 1..Len(DecimalRuns) : DecimalRuns[r][i] = c) - 1

\* str.isdigit(): non-empty and only digits, so a signed number is not a digit string
isdigit(t) == Len(t) > 0 /\ \A i \in 1..Len(t) : t[i] \in DigitChars

\* the value of a digit string; the underscores int() allows are skipped
RECURSIVE DigitsVal(_)
DigitsVal(t) ==
    IF t = <<>> THEN 0
    ELSE IF t[Len(t)] = "_" THEN DigitsVal(SubSeq(t, 1, Len(t) - 1))
    ELSE 10 * DigitsVal(SubSeq(t, 1, Len(t) - 1)) + DigitVal(t[Len(t)])

\* sys.get_int_max_str_digits(): int() refuses a text of more digits
MaxStrDigits == 4300

\* what int() takes after the sign: decimal digits, with single underscores
\* between them, and no more than MaxStrDigits digits
IntBody(t) ==
    /\ Len(t) > 0
    /\ Cardinality({i \in 1..Len(t) : t[i] # "_"}) <= MaxStrDigits
    /\ \A i \in 1..Len(t) : t[i] \in DecimalChars \cup {"_"}
    /\ t[1] # "_" /\ t[Len(t)] # "_"
    /\ \A i \in 1..(Len(t) - 1) : ~(t[i] = "_" /\ t[i + 1] = "_")

\* int(t) raises ValueError unless t is an optionally signed digit string
IntOk(t) == IntBody(t) \/ (Len(t) > 1 /\ t[1] \in {"-", "+"} /\ IntBody(Tail(t)))

int(t) ==
    IF t[1] = "-" THEN 0 - DigitsVal(Tail(t))
    ELSE IF t[1] = "+" THEN DigitsVal(Tail(t))
    ELSE DigitsVal(t)

\* The decimal text of an integer (used to write input buffers)
DigitChar(d) ==
    CASE d = 0 -> "0" [] d = 1 -> "1" [] d = 2 -> "2" [] d = 3 -> "3" [] d = 4 -> "4"
      [] d = 5 -> "5" [] d = 6 -> "6" [] d = 7 -> "7" [] d = 8 -> "8" [] d = 9 -> "9"

RECURSIVE NatStr(_)
NatStr(n) == IF n < 10 THEN <<DigitChar(n)>> ELSE Append(NatStr(n \div 10), DigitChar(n % 10))

Str(n) == IF n < 0 THEN <<"-">> \o NatStr(0 - n) ELSE NatStr(n)

-----------------------------------------------------------------------------
(* Numbers that may be Python floats: NumVolumes after the legacy          *)
(* correction is the float (len(lines) - 11) / (nrslices * nrechoes)       *)

IntNum(n) == [float |-> FALSE, num |-> n, den |-> 1]
FloatQuot(a, b) == [float |-> TRUE, num |-> a, den |-> b]      \* a / b with b > 0
NumLt1(x) == x.num < x.den
NumEq1(x) == x.num = x.den

-----------------------------------------------------------------------------
(* numpy indexing *)

\* An integer index i into an axis of length n: negative indices count from the
\* end, anything outside [-n, n) is an IndexError
IndexOk(i, n) == 0 - n <= i /\ i < n
Index(i, n) == IF i < 0 THEN i + n ELSE i

\* A slice bound i on an axis of length n: negative bounds count from the end,
\* and the result is clipped to [0, n]
SliceBound(i, n) ==
    LET j == IF i < 0 THEN i + n ELSE i
    IN  IF j < 0 THEN 0 ELSE IF j > n THEN n ELSE j

\* The ticks selected by a[lo:hi] on an axis of length n
SliceTicks(lo, hi, n) == {i \in 0..(n - 1) : SliceBound(lo, n) <= i /\ i < SliceBound(hi, n)}

-----------------------------------------------------------------------------
(* readparsefile: the local variables and the handling of one line *)

NoTraces == [alloc |-> FALSE, dims |-> <<>>, a |-> <<>>]

\* lines 61-62 and the parameters: nrechoes is prefilled, traces is None, and
\* UUID, sampletime, nrslices, nrvolumes and lasttime are unbound
InitLocals(ft) ==
    [bound      |-> {},
     UUID       |-> <<>>,
     sampletime |-> 0,
     nrslices   |-> 0,
     nrvolumes  |-> IntNum(0),
     nrechoes   |-> 1,
     firsttime  |-> ft,
     lasttime   |-> 0,
     traces     |-> NoTraces,
     error      |-> ""]

\* An exception leaves the call (a bare raise after LOGGER.error, or a Python or
\* numpy error); what names the cause
Fail(l, what) == [l EXCEPT !.error = what]

\* lines 100-119: the keys that only an INFO buffer may hold
SetInfoOnly(l, field, value, ldt) ==
    IF ldt # "ACQUISITION_INFO" THEN Fail(l, "Invalid parameter")
    ELSE IF ~IntOk(value) THEN Fail(l, "ValueError")
    ELSE IF field = "nrslices"  THEN [l EXCEPT !.nrslices = int(value), !.bound = @ \cup {field}]
    ELSE IF field = "nrvolumes" THEN [l EXCEPT !.nrvolumes = IntNum(int(value)), !.bound = @ \cup {field}]
    ELSE IF field = "firsttime" THEN [l EXCEPT !.firsttime = int(value)]
    ELSE IF field = "lasttime"  THEN [l EXCEPT !.lasttime = int(value), !.bound = @ \cup {field}]
    ELSE [l EXCEPT !.nrechoes = int(value)]

\* lines 83-119: an assigned value
Assign(l, ln, ldt) ==
    IF Len(ln.items) # 1 THEN Fail(l, "ValueError")      \* line 86 unpacks exactly two parts
    ELSE
    LET varname == ln.varname
        value   == ln.items[1]
    IN  CASE varname = "UUID" ->
               [l EXCEPT !.UUID = value, !.bound = @ \cup {"UUID"}]
          [] varname = "LogVersion" ->
               IF value # expectedversion THEN Fail(l, "File format not supported") ELSE l
          [] varname = "LogDataType" ->
               IF value # Chars(ldt) THEN Fail(l, "Unexpected data type") ELSE l
          [] varname = "SampleTime" ->
               IF ldt = "ACQUISITION_INFO" THEN Fail(l, "Invalid parameter")
               ELSE IF ~IntOk(value) THEN Fail(l, "ValueError")
               ELSE [l EXCEPT !.sampletime = int(value), !.bound = @ \cup {"sampletime"}]
          [] varname = "NumSlices"  -> SetInfoOnly(l, "nrslices", value, ldt)
          [] varname = "NumVolumes" -> SetInfoOnly(l, "nrvolumes", value, ldt)
          [] varname = "FirstTime"  -> SetInfoOnly(l, "firsttime", value, ldt)
          [] varname = "LastTime"   -> SetInfoOnly(l, "lasttime", value, ldt)
          [] varname = "NumEchoes"  -> SetInfoOnly(l, "nrechoes", value, ldt)
          [] OTHER -> l

\* line 125: pad the columns with '0' to always have 5 of them
dataitems(ln) == [n \in 1..NrColumns |-> IF n <= Len(ln.items) THEN ln.items[n] ELSE <<"0">>]

\* line 128: a data line whose first column is not numeric is skipped
IsHeader(ln) == ~isdigit(dataitems(ln)[1])

\* The cells of an acquisition map of nv volumes, ns slices and ne echoes
Cells(nv, ns, ne) == (0..(nv - 1)) \X (0..(ns - 1)) \X (0..(ne - 1))

\* line 143: np.zeros((2, nrvolumes, nrslices, nrechoes)); a cell is <<start, finish>>
ZeroMap(nv, ns, ne) ==
    [alloc |-> TRUE, dims |-> <<nv, ns, ne>>, a |-> [c \in Cells(nv, ns, ne) |-> <<0, 0>>]]

\* lines 166, 172, 178: np.zeros((expectedsamples, lanes)); a[lane][tick].
\* numpy allows no negative dimension: no array is made and the call raises
ZeroTrace(n, lanes) ==
    IF n < 0 THEN NoTraces
    ELSE [alloc |-> TRUE, dims |-> <<n, lanes>>,
          a |-> [c \in 0..(lanes - 1) |-> [i \in 0..(n - 1) |-> 0]]]

\* line 150: traces[:, curvol, curslc, cureco].any()
AlreadyWritten(cell) == cell[1] # 0 \/ cell[2] # 0

\* lines 144-156, once traces is allocated
StoreTiming(l, d) ==
    IF ~(IntOk(d[1]) /\ IntOk(d[2]) /\ IntOk(d[3]) /\ IntOk(d[4])) THEN Fail(l, "ValueError")
    ELSE
    LET nv == l.traces.dims[1]
        ns == l.traces.dims[2]
        ne == l.traces.dims[3]
        curvol    == int(d[1])
        curslc    == int(d[2])
        curstart  == int(d[3])
        curfinish == int(d[4])
    IN  IF Len(d[5]) > 0 THEN
            IF ~IntOk(d[5]) THEN Fail(l, "ValueError")
            ELSE
            LET cureco == int(d[5]) IN
            IF ~(IndexOk(curvol, nv) /\ IndexOk(curslc, ns) /\ IndexOk(cureco, ne))
            THEN Fail(l, "IndexError")
            ELSE
            LET c == <<Index(curvol, nv), Index(curslc, ns), Index(cureco, ne)>> IN
            IF AlreadyWritten(l.traces.a[c]) THEN Fail(l, "duplicate timing data")
            ELSE [l EXCEPT !.traces.a[c] = <<curstart, curfinish>>]
        ELSE
            \* lines 152-155: cureco = 0, and the truth value of the two-element
            \* array traces[:, curvol, curslc, 0] is a ValueError
            IF ~(IndexOk(curvol, nv) /\ IndexOk(curslc, ns)) THEN Fail(l, "IndexError")
            ELSE Fail(l, "ValueError")

\* lines 132-156: a data row of an INFO buffer; n is len(lines)
InfoRow(l, d, n) ==
    IF \/ "nrvolumes" \notin l.bound \/ NumLt1(l.nrvolumes)
       \/ "nrslices" \notin l.bound  \/ l.nrslices < 1
       \/ l.nrechoes < 1
    THEN Fail(l, "Failed reading ACQINFO header")
    ELSE
    LET nrvolumes == IF NumEq1(l.nrvolumes)
                     THEN FloatQuot(n - LegacyHeaderLines, l.nrslices * l.nrechoes)
                     ELSE l.nrvolumes
        l1 == [l EXCEPT !.nrvolumes = nrvolumes]
    IN  IF l1.traces.alloc THEN StoreTiming(l1, d)
        ELSE IF nrvolumes.float THEN Fail(l1, "TypeError")   \* np.zeros takes no float dimension
        ELSE StoreTiming([l1 EXCEPT !.traces = ZeroMap(nrvolumes.num, l1.nrslices, l1.nrechoes)], d)

\* The position of token t in the list names (list.index), 0 if it is not in it
ListIndex(names, t) ==
    IF \E i \in 1..Len(names) : names[i] = t
    THEN CHOOSE i \in 1..Len(names) : names[i] = t /\ \A j \in 1..(i - 1) : names[j] # t
    ELSE 0

\* HoldWrite holding the value one tick too long
HoldWrite_OneTickMore(l, curstart, chaidx, curvalue) ==
    IF "sampletime" \notin l.bound THEN Fail(l, "UnboundLocalError")
    ELSE IF l.sampletime < 0 THEN Fail(l, "ValueError")
    ELSE
    LET n     == l.traces.dims[1]
        ticks == SliceTicks(curstart, curstart + l.sampletime + 1, n)
    IN  [l EXCEPT !.traces.a[chaidx] = [i \in 0..(n - 1) |-> IF i \in ticks THEN curvalue ELSE @[i]]]

\* line 181: traces[curstart:curstart+sampletime, chaidx] = curvalue * np.ones(sampletime)
HoldWrite(l, curstart, chaidx, curvalue) ==
    IF "sampletime" \notin l.bound THEN Fail(l, "UnboundLocalError")
    ELSE IF l.sampletime < 0 THEN Fail(l, "ValueError")      \* np.ones of a negative size
    ELSE
    LET n     == l.traces.dims[1]
        ticks == SliceTicks(curstart, curstart + l.sampletime, n)
    IN  \* the sampletime values fill the slice if it has that length; one value is
        \* broadcast to a slice of any length; everything else cannot be broadcast
        IF Cardinality(ticks) = l.sampletime \/ l.sampletime = 1
        THEN [l EXCEPT !.traces.a[chaidx] = [i \in 0..(n - 1) |-> IF i \in ticks THEN curvalue ELSE @[i]]]
        ELSE Fail(l, "ValueError")

\* lines 158-181: a data row of a channel buffer; es is expectedsamples
ChannelRow(l, d, ldt, es) ==
    IF ~(IntOk(d[1]) /\ IntOk(d[3])) THEN Fail(l, "ValueError")
    ELSE IF ~l.traces.alloc /\ es < 0 THEN Fail(l, "ValueError")   \* np.zeros of a negative size
    ELSE
    LET curstart   == int(d[1]) - l.firsttime
        curchannel == d[2]
        curvalue   == int(d[3])
        lanes      == IF ldt = "ECG" THEN Len(ECGChannels) ELSE IF ldt = "EXT" THEN Len(EXTChannels) ELSE 1
        l1         == IF l.traces.alloc THEN l ELSE [l EXCEPT !.traces = ZeroTrace(es, lanes)]
    IN  IF ldt = "ECG" THEN
            IF ListIndex(ECGChannels, curchannel) = 0 THEN Fail(l1, "Invalid ECG channel ID")
            ELSE HoldWrite(l1, curstart, ListIndex(ECGChannels, curchannel) - 1, curvalue)
        ELSE IF ldt = "EXT" THEN
            IF ListIndex(EXTChannels, curchannel) = 0 THEN Fail(l1, "Invalid EXT channel ID")
            ELSE HoldWrite(l1, curstart, ListIndex(EXTChannels, curchannel) - 1, curvalue)
        ELSE HoldWrite(l1, curstart, 0, curvalue)

\* lines 78-181: the body of the loop for one non-empty line
ParseLine(l, ln, ldt, es, n) ==
    IF ln.kind = "assign" THEN Assign(l, ln, ldt)
    ELSE IF IsHeader(ln) THEN l
    ELSE IF ldt = "ACQUISITION_INFO" THEN InfoRow(l, dataitems(ln), n)
    ELSE ChannelRow(l, dataitems(ln), ldt, es)

\* lines 183-187: the return statement.  traces - firsttime is a TypeError on
\* None, and naming an unbound local is an UnboundLocalError
Return(l, ldt) ==
    IF ldt = "ACQUISITION_INFO" THEN
        IF ~l.traces.alloc THEN Fail(l, "TypeError")
        ELSE IF ~({"UUID", "nrslices", "nrvolumes", "lasttime"} \subseteq l.bound)
        THEN Fail(l, "UnboundLocalError")
        ELSE [l EXCEPT !.traces.a = [c \in DOMAIN @ |-> <<@[c][1] - l.firsttime, @[c][2] - l.firsttime>>]]
    ELSE IF "UUID" \notin l.bound THEN Fail(l, "UnboundLocalError")
    ELSE l

\* lines 49-187: the whole call on a buffer
RECURSIVE ParseLines(_, _, _, _, _, _)
ParseLines(l, lines, k, ldt, es, n) ==
    IF l.error # "" \/ k > Len(lines) THEN l
    ELSE IF lines[k].kind = "empty" THEN ParseLines(l, lines, k + 1, ldt, es, n)
    ELSE ParseLines(ParseLine(l, lines[k], ldt, es, n), lines, k + 1, ldt, es, n)

readparsefile(fn, ldt, ft, es) ==
    LET l == ParseLines(InitLocals(ft), fn, 1, ldt, es, Len(fn))
    IN  IF l.error # "" THEN l ELSE Return(l, ldt)

-----------------------------------------------------------------------------
(* Bounds of the explored inputs *)

\* the largest number of data rows of a buffer parsed line by line
MaxRows == 2

\* the largest sample value written in a channel row
MaxValue == 5

\* the largest SampleTime of a channel buffer
MaxSampleTime == 2

-----------------------------------------------------------------------------
(* Input lines *)

AssignLine(varname, value) == [kind |-> "assign", varname |-> varname, items |-> <<value>>]
DataLine(items) == [kind |-> "data", varname |-> "", items |-> items]
EmptyLine == [kind |-> "empty", varname |-> "", items |-> <<>>]

\* a row of numbers, as text
NumberRow(ns) == DataLine([i \in 1..Len(ns) |-> Str(ns[i])])

\* a channel row: timestamp, channel name, value
SampleRow(t, name, value) == DataLine(<<Str(t), name, Str(value)>>)

UUID_A == <<"A">>
UUID_B == <<"B">>
OtherVersion == <<"E", "J", "A", "_", "2">>
ColumnTitle == <<"V", "O", "L">>
\* a first column that str.isdigit accepts and int() refuses
SuperscriptTwo == <<"U+00B2">>

\* FirstTime and LastTime of the scans explored line by line
ScanFirst == 2
ScanLast == 5

\* len(lines) of the INFO buffers explored line by line: 15 is the documented
\* legacy example, 13 gives a fractional quotient with 4 slices
LineCounts == {13, 15}

\* <<start, finish>> pairs of INFO rows: an all-zero pair, a pair inside the scan
\* and a reversed pair
RowTimes == {<<0, 0>>, <<ScanFirst, ScanFirst + 1>>, <<ScanFirst + 1, ScanFirst>>}

InfoAssignments ==
    {AssignLine("UUID", UUID_A),
     AssignLine("LogVersion", expectedversion), AssignLine("LogVersion", OtherVersion),
     AssignLine("LogDataType", Chars("ACQUISITION_INFO")), AssignLine("LogDataType", Chars("ECG")),
     AssignLine("NumSlices", Str(4)),
     AssignLine("NumVolumes", Str(1)), AssignLine("NumVolumes", Str(2)),
     AssignLine("NumEchoes", Str(2)), AssignLine("NumEchoes", <<"U+0662">>),
     AssignLine("FirstTime", Str(ScanFirst)), AssignLine("LastTime", Str(ScanLast)),
     AssignLine("SampleTime", Str(1)),
     [kind |-> "assign", varname |-> "UUID", items |-> <<UUID_A, UUID_B>>]}

InfoRows ==
    {NumberRow(<<0, 0, st[1], st[2]>>) : st \in RowTimes}
    \cup {NumberRow(<<0, 0, st[1], st[2], e>>) : st \in RowTimes, e \in 0..1}
    \cup {DataLine(<<SuperscriptTwo, Str(0), Str(0), Str(0)>>)}

ChannelAssignments(ldt) ==
    {AssignLine("UUID", UUID_A),
     AssignLine("LogVersion", expectedversion), AssignLine("LogVersion", OtherVersion),
     AssignLine("LogDataType", Chars(ldt)), AssignLine("LogDataType", Chars("ACQUISITION_INFO")),
     AssignLine("NumSlices", Str(1))}
    \cup {AssignLine("SampleTime", Str(k)) : k \in {1, MaxSampleTime}}
    \cup {AssignLine("SampleTime", <<"0", "_", "1">>)}

LaneNames(ldt) ==
    IF ldt = "ECG" THEN {Chars("ECG1"), Chars("ECG2"), Chars("EXT")}
    ELSE IF ldt = "EXT" THEN {Chars("EXT"), Chars("EXT2"), Chars("ECG1")}
    ELSE {Chars(ldt)}

\* timestamps of channel rows: before FirstTime, at it, after it, and at the last
\* tick of the padded trace
SampleTimestamps == {ScanFirst - 2, ScanFirst, ScanFirst + 1, ScanLast + Padding}

ChannelRows(ldt) ==
    {SampleRow(t, name, v) : t \in SampleTimestamps, name \in LaneNames(ldt), v \in {0, MaxValue}}
    \cup {DataLine(<<SuperscriptTwo, Chars(ldt), Str(1)>>)}

\* the lines a buffer of kind ldt is made of
Lines(ldt) ==
    {DataLine(<<ColumnTitle>>), DataLine(<<>>)}
    \cup (IF ldt = "ACQUISITION_INFO" THEN InfoAssignments \cup InfoRows
          ELSE ChannelAssignments(ldt) \cup ChannelRows(ldt))

-----------------------------------------------------------------------------
(* readparsefile, one line at a time.  Empty lines are dropped before the   *)
(* loop (line 78) and count only in len(lines), so the lines of a buffer    *)
(* are not counted here: a state is reached by a buffer of len(lines) lines *)
(* with the empty lines that are missing                                     *)

\* lines 368-383: the dict physio before anything is stored in it
NoPhysio == [state |-> "none", error |-> "", UUID |-> <<>>, SliceMap |-> <<>>,
             ACQ |-> <<>>, keys |-> {}, lane |-> <<>>]

\* readphysio is not running
PhysioIdle ==
    /\ pc = "idle"
    /\ input = <<>>
    /\ found = <<>>
    /\ files = <<>>
    /\ info = InitLocals(0)
    /\ chan = <<>>
    /\ physio = NoPhysio

\* readphysio calls readparsefile(fnINFO, 'ACQUISITION_INFO', 0, 0) (line 327) and
\* readparsefile(fn, kind, firsttime, expectedsamples) (lines 334-349)
InitParse ==
    /\ logdatatype \in Kinds
    /\ IF logdatatype = "ACQUISITION_INFO"
       THEN /\ expectedsamples = 0
            /\ loc = InitLocals(0)
       ELSE /\ expectedsamples = ScanLast - ScanFirst + 1 + Padding
            /\ loc = InitLocals(ScanFirst)
    /\ nlines \in IF logdatatype = "ACQUISITION_INFO" THEN LineCounts
                  ELSE {n \in LineCounts : \A m \in LineCounts : n <= m}   \* read by line 140 only
    /\ status = "parsing"
    /\ hist = <<>>
    /\ PhysioIdle

\* an exception unwinds the call: its locals are gone, the cause is kept
Raised(what) == [InitLocals(0) EXCEPT !.error = what]
Outcome(l) == IF l.error # "" THEN Raised(l.error) ELSE l

\* the next non-empty line of the buffer is ln
Consume(ln) ==
    /\ status = "parsing"
    /\ loc' = Outcome(ParseLine(loc, ln, logdatatype, expectedsamples, nlines))
    /\ status' = IF loc'.error # "" THEN "raised" ELSE "parsing"
    /\ UNCHANGED <<logdatatype, expectedsamples, nlines>>
    /\ UNCHANGED physiovars

\* lines 83-119
AssignedValue ==
    \E ln \in Lines(logdatatype) :
        /\ ln.kind = "assign"
        /\ Consume(ln)
        /\ UNCHANGED hist

\* lines 127-129
SkipHeader ==
    \E ln \in Lines(logdatatype) :
        /\ ln.kind = "data" /\ IsHeader(ln)
        /\ Consume(ln)
        /\ UNCHANGED hist

\* lines 132-156
AcquisitionRow ==
    \E ln \in Lines(logdatatype) :
        /\ logdatatype = "ACQUISITION_INFO"
        /\ ln.kind = "data" /\ ~IsHeader(ln)
        /\ Len(hist) < MaxRows
        /\ Consume(ln)
        /\ hist' = Append(hist, [ln |-> ln, sampletime |-> loc.sampletime])

\* lines 158-181
SampleRowStep ==
    \E ln \in Lines(logdatatype) :
        /\ logdatatype # "ACQUISITION_INFO"
        /\ ln.kind = "data" /\ ~IsHeader(ln)
        /\ Len(hist) < MaxRows
        /\ Consume(ln)
        /\ hist' = Append(hist, [ln |-> ln, sampletime |-> loc.sampletime])

\* lines 183-187: the buffer is exhausted
ReturnTraces ==
    /\ status = "parsing"
    /\ loc' = Outcome(Return(loc, logdatatype))
    /\ status' = IF loc'.error # "" THEN "raised" ELSE "returned"
    /\ UNCHANGED <<logdatatype, expectedsamples, nlines, hist>>
    /\ UNCHANGED physiovars

NextParse == AssignedValue \/ SkipHeader \/ AcquisitionRow \/ SampleRowStep \/ ReturnTraces

SpecParse == InitParse /\ [][NextParse]_vars

-----------------------------------------------------------------------------
(* readphysio *)

\* the keys of the returned dict that hold channel traces, with their channel
\* file and lane (lines 372-383)
LaneKeys == {"ECG1", "ECG2", "ECG3", "ECG4", "RESP", "PULS", "EXT", "EXT2"}
KeyKind(key) ==
    IF key \in {"ECG1", "ECG2", "ECG3", "ECG4"} THEN "ECG"
    ELSE IF key \in {"EXT", "EXT2"} THEN "EXT"
    ELSE key
KeyLane(key) ==
    CASE key = "ECG2" -> 1 [] key = "ECG3" -> 2 [] key = "ECG4" -> 3 [] key = "EXT2" -> 1
      [] OTHER -> 0

\* lines 330-331
actualsamples(i) == i.lasttime - i.firsttime + 1
expsamples(i) == actualsamples(i) + Padding

\* array.any() of a trace array
AnyNonzero(tr) == \E c \in DOMAIN tr.a : \E i \in DOMAIN tr.a[c] : tr.a[c][i] # 0

\* sum(array[:, lane]), Python's sum over the ticks
RECURSIVE SumTo(_, _)
SumTo(f, n) == IF n = 0 THEN 0 ELSE SumTo(f, n - 1) + f[n - 1]
sum(tr, lane) == SumTo(tr.a[lane], tr.dims[1])

\* lines 362-365: the cells the loops visit; range() of a float is a TypeError
\* and a cell outside the allocated map an IndexError
ACQCells(i) == Cells(i.nrvolumes.num, i.nrslices, i.nrechoes)
ACQError(i) ==
    IF i.nrvolumes.float THEN "TypeError"
    ELSE IF ACQCells(i) \subseteq DOMAIN i.traces.a THEN ""
    ELSE "IndexError"

\* lines 361-365: ACQ[slicemap[0,v,s,e]:slicemap[1,v,s,e]+1, 0] = True
FormatACQ(i) ==
    [t \in 0..(expsamples(i) - 1) |->
        \E c \in ACQCells(i) :
            t \in SliceTicks(i.traces.a[c][1], i.traces.a[c][2] + 1, expsamples(i))]

\* lines 372-383: the test that guards physio[key] = ...
Active(tr, key) == AnyNonzero(tr) /\ sum(tr, KeyLane(key)) # 0

RaisePhysio(what) ==
    /\ pc' = "raised"
    /\ physio' = [physio EXCEPT !.state = "raised", !.error = what]

\* no line-by-line parse is running
ParseIdle ==
    /\ logdatatype = "ACQUISITION_INFO"
    /\ expectedsamples = 0
    /\ nlines = 0
    /\ loc = InitLocals(0)
    /\ status = "idle"
    /\ hist = <<>>

Channels == {"ECG", "RESP", "PULS", "EXT"}

\* INFO buffers: with or without the LogVersion and LogDataType lines, NumVolumes
\* nv, the scan times, an empty line, the column titles, and one or two rows
InfoBuffer(checks, nv, ft, lt, nrows) ==
    <<AssignLine("UUID", UUID_A)>>
    \o (IF checks THEN <<AssignLine("LogVersion", expectedversion),
                         AssignLine("LogDataType", Chars("ACQUISITION_INFO"))>>
        ELSE <<>>)
    \o <<AssignLine("NumSlices", Str(1)), AssignLine("NumVolumes", Str(nv)),
         AssignLine("NumEchoes", Str(1)),
         AssignLine("FirstTime", Str(ft)), AssignLine("LastTime", Str(lt)),
         EmptyLine, DataLine(<<ColumnTitle>>),
         NumberRow(<<0, 0, ft, ft + 1>>)>>
    \o (IF nrows > 1 THEN <<NumberRow(<<1, 0, ft + 2, ft + 3>>)>> ELSE <<>>)

\* <<FirstTime, LastTime>> of the INFO buffers: a short scan, the documented
\* example, and a scan whose last timestamp is not greater than its first
ScanTimes == {<<ScanFirst, ScanLast>>, <<100, 109>>, <<ScanLast, ScanLast>>}

InfoBuffers ==
    {InfoBuffer(checks, nv, t[1], t[2], nrows) :
        checks \in BOOLEAN, nv \in 1..2, t \in ScanTimes, nrows \in 1..2}

FirstLane(k) == IF k = "ECG" THEN Chars("ECG1") ELSE Chars(k)
SecondLane(k) == IF k = "ECG" THEN Chars("ECG2") ELSE IF k = "EXT" THEN Chars("EXT2") ELSE Chars(k)

\* the rows of a channel buffer: none, a zero sample, a nonzero sample, two
\* samples that cancel, a sample on the second lane
SampleRows(k, variant) ==
    CASE variant = "none"   -> <<>>
      [] variant = "zero"   -> <<SampleRow(ScanFirst, FirstLane(k), 0)>>
      [] variant = "active" -> <<SampleRow(ScanFirst, FirstLane(k), MaxValue)>>
      [] variant = "cancel" -> <<SampleRow(ScanFirst, FirstLane(k), MaxValue),
                                 SampleRow(ScanFirst + 1, FirstLane(k), 0 - MaxValue)>>
      [] variant = "second" -> <<SampleRow(ScanFirst, SecondLane(k), MaxValue),
                                 SampleRow(ScanFirst + 1, FirstLane(k), 0)>>

ChannelBuffer(k, uuid, variant) ==
    <<AssignLine("UUID", uuid), AssignLine("LogVersion", expectedversion),
      AssignLine("LogDataType", Chars(k)), AssignLine("SampleTime", Str(1)),
      EmptyLine, DataLine(<<ColumnTitle>>)>>
    \o SampleRows(k, variant)

ChannelBuffers(k) ==
    {ChannelBuffer(k, uuid, variant) :
        uuid \in {UUID_A, UUID_B},
        variant \in {"none", "zero", "active", "cancel"}
                    \cup (IF k \in {"ECG", "EXT"} THEN {"second"} ELSE {})}

\* what fn can point to: the basename of text log files, a PHYSIO DICOM file, a
\* PHYSIO DICOM file whose size is no whole number of 1024-byte rows, and a file
\* that is no PHYSIO DICOM
Sources == {"logfiles", "dicom", "badsize", "nophysio"}

\* lines 259-262: the call starts with no channel found; input.has[k] tells
\* whether the log file of kind k exists or is encoded in the DICOM
Init ==
    /\ pc = "start"
    /\ input \in [source : Sources, has : [Kinds -> BOOLEAN]]
    /\ found = [k \in Channels |-> FALSE]
    /\ files = [k \in Kinds |-> <<>>]
    /\ info = InitLocals(0)
    /\ chan = [k \in Channels |-> InitLocals(0)]
    /\ physio = NoPhysio
    /\ ParseIdle

\* lines 265-321: decode the DICOM or look for the text log files
FindFiles ==
    /\ pc = "start"
    /\ IF input.source = "nophysio" THEN RaisePhysio("not a valid DICOM format file") /\ UNCHANGED found
       ELSE IF input.source = "badsize" THEN RaisePhysio("Invalid image size") /\ UNCHANGED found
       ELSE IF input.source = "logfiles" /\ ~input.has["ACQUISITION_INFO"]
       THEN RaisePhysio("Info.log not found") /\ UNCHANGED found
       ELSE /\ found' = [k \in Channels |-> input.has[k]]
            /\ pc' = "check"
            /\ UNCHANGED physio
    /\ UNCHANGED <<input, files, info, chan>>
    /\ UNCHANGED parsevars

\* lines 323-324
CheckFiles ==
    /\ pc = "check"
    /\ IF \A k \in Channels : ~found[k]
       THEN RaisePhysio("No data files found")
       ELSE pc' = "INFO" /\ UNCHANGED physio
    /\ UNCHANGED <<input, found, files, info, chan>>
    /\ UNCHANGED parsevars

\* lines 327-331
ReadInfo ==
    /\ pc = "INFO"
    /\ IF ~input.has["ACQUISITION_INFO"]
       THEN \* a DICOM without encoded _Info.log: fnINFO is unbound at line 327
            RaisePhysio("UnboundLocalError") /\ UNCHANGED <<files, info>>
       ELSE \E fn \in InfoBuffers :
            LET r == readparsefile(fn, "ACQUISITION_INFO", 0, 0) IN
            /\ files' = [files EXCEPT !["ACQUISITION_INFO"] = fn]
            /\ IF r.error # "" THEN RaisePhysio(r.error) /\ UNCHANGED info
               ELSE IF r.lasttime <= r.firsttime
               THEN RaisePhysio("Last timestamp is not greater than first") /\ UNCHANGED info
               ELSE pc' = "ECG" /\ info' = r /\ UNCHANGED physio
    /\ UNCHANGED <<input, found, chan>>
    /\ UNCHANGED parsevars

\* ReadChannel without the comparison of the UUIDs (lines 335, 340, 345, 350)
ReadChannel_NoUUIDCheck(k, next) ==
    /\ pc = k
    /\ IF ~found[k] THEN pc' = next /\ UNCHANGED <<files, chan, physio>>
       ELSE \E fn \in ChannelBuffers(k) :
            LET r == readparsefile(fn, k, info.firsttime, expsamples(info)) IN
            /\ files' = [files EXCEPT ![k] = fn]
            /\ IF r.error # "" THEN RaisePhysio(r.error) /\ UNCHANGED chan
               ELSE pc' = next /\ chan' = [chan EXCEPT ![k] = r] /\ UNCHANGED physio
    /\ UNCHANGED <<input, found, info>>
    /\ UNCHANGED parsevars

\* lines 333-336, 338-341, 343-346, 348-351: one channel file
ReadChannel(k, next) ==
    /\ pc = k
    /\ IF ~found[k] THEN pc' = next /\ UNCHANGED <<files, chan, physio>>
       ELSE \E fn \in ChannelBuffers(k) :
            LET r == readparsefile(fn, k, info.firsttime, expsamples(info)) IN
            /\ files' = [files EXCEPT ![k] = fn]
            /\ IF r.error # "" THEN RaisePhysio(r.error) /\ UNCHANGED chan
               ELSE IF info.UUID # r.UUID
               THEN RaisePhysio("UUID mismatch") /\ UNCHANGED chan
               ELSE pc' = next /\ chan' = [chan EXCEPT ![k] = r] /\ UNCHANGED physio
    /\ UNCHANGED <<input, found, info>>
    /\ UNCHANGED parsevars

ReadECG  == ReadChannel("ECG", "RESP")
ReadRESP == ReadChannel("RESP", "PULS")
ReadPULS == ReadChannel("PULS", "EXT")
ReadEXT  == ReadChannel("EXT", "ACQ")

\* lines 360-365
BuildACQ ==
    /\ pc = "ACQ"
    /\ IF ACQError(info) # "" THEN RaisePhysio(ACQError(info))
       ELSE /\ pc' = "return"
            /\ physio' = [physio EXCEPT !.ACQ = FormatACQ(info)]
    /\ UNCHANGED <<input, found, files, info, chan>>
    /\ UNCHANGED parsevars

\* lines 367-389; .any() of a channel that returned no traces (None) is an
\* AttributeError
ReturnPhysio ==
    /\ pc = "return"
    /\ IF \E k \in Channels : found[k] /\ ~chan[k].traces.alloc
       THEN RaisePhysio("AttributeError")
       ELSE LET keys == {key \in LaneKeys :
                            found[KeyKind(key)] /\ Active(chan[KeyKind(key)].traces, key)}
            IN  /\ pc' = "done"
                /\ physio' = [physio EXCEPT
                                !.state = "returned",
                                !.UUID = info.UUID,
                                !.SliceMap = info.traces.a,
                                !.keys = keys,
                                !.lane = [key \in keys |-> chan[KeyKind(key)].traces.a[KeyLane(key)]]]
    /\ UNCHANGED <<input, found, files, info, chan>>
    /\ UNCHANGED parsevars

Next == FindFiles \/ CheckFiles \/ ReadInfo \/ ReadECG \/ ReadRESP \/ ReadPULS \/ ReadEXT \/ BuildACQ \/ ReturnPhysio

Spec == Init /\ [][Next]_vars

-----------------------------------------------------------------------------
(* Properties of readphysio *)

\* the value of the last UUID assignment of a buffer, <<>> if it has none
RECURSIVE LastUUID(_)
LastUUID(fn) ==
    IF fn = <<>> THEN <<>>
    ELSE LET ln == fn[Len(fn)] IN
         IF ln.kind = "assign" /\ ln.varname = "UUID" /\ Len(ln.items) = 1 THEN ln.items[1]
         ELSE LastUUID(SubSeq(fn, 1, Len(fn) - 1))

\* channel file k has been read
WasRead(k) == files[k] # <<>>

\* channel file k has been read and its UUID is not the UUID of the INFO buffer
UUIDDiffers(k) == found[k] /\ WasRead(k) /\ LastUUID(files[k]) # LastUUID(files["ACQUISITION_INFO"])

\* C1: once a channel file whose UUID differs from the INFO UUID has been read,
\* the call has failed with an error and nothing is stored in the result (no
\* state, no keys, no traces); so a result is returned only if the UUID of every
\* channel file that was found equals the INFO UUID.
C1_UUIDMismatchFails ==
    /\ \A k \in Channels :
          UUIDDiffers(k) => pc = "raised" /\ physio.state = "raised" /\ physio.error # ""
                            /\ physio.keys = {} /\ physio.ACQ = <<>> /\ physio.UUID = <<>>
    /\ physio.state = "returned" =>
          \A k \in Channels : found[k] => WasRead(k) /\ LastUUID(files[k]) = LastUUID(files["ACQUISITION_INFO"])

\* C1 witness: the PULS file was read after two matching files, carries another
\* UUID, and the call ended with the UUID mismatch error
C1_Witness ==
    /\ found["ECG"] /\ found["RESP"] /\ found["PULS"]
    /\ ~UUIDDiffers("ECG") /\ ~UUIDDiffers("RESP") /\ UUIDDiffers("PULS")
    /\ pc = "raised" /\ physio.error = "UUID mismatch"

\* the lane of a returned key holds a nonzero sample
LaneHasNonzero(key) ==
    LET tr == chan[KeyKind(key)].traces
    IN  tr.alloc /\ \E i \in DOMAIN tr.a[KeyLane(key)] : tr.a[KeyLane(key)][i] # 0

\* C2: in the returned record a channel key is present if and only if its
\* channel file was found and its lane holds at least one nonzero sample,
\* whatever the sign or the sum of the samples.
C2_KeyIffNonzeroLane ==
    physio.state = "returned" =>
        \A key \in LaneKeys :
            key \in physio.keys <=> (found[KeyKind(key)] /\ LaneHasNonzero(key))

\* C3: on success ACQ has expectedSamples = (LastTime - FirstTime + 1) + 8 ticks,
\* and tick i is True if and only if some cell of the normalized acquisition
\* map has start <= i <= finish.
C3_ACQMask ==
    physio.state = "returned" =>
        /\ DOMAIN physio.ACQ = 0..(info.lasttime - info.firsttime + 1 + 8 - 1)
        /\ \A i \in DOMAIN physio.ACQ :
              physio.ACQ[i] <=> \E c \in DOMAIN physio.SliceMap :
                                   physio.SliceMap[c][1] <= i /\ i <= physio.SliceMap[c][2]

-----------------------------------------------------------------------------
(* Properties of readparsefile *)

IsInfo == logdatatype = "ACQUISITION_INFO"

\* the cell <<volume, slice, echo>> an INFO row names (an absent echo column is
\* padded to '0') and the times it carries
RowCell(e) ==
    LET d == dataitems(e.ln) IN <<int(d[1]), int(d[2]), int(d[5])>>
RowTimesOf(e) ==
    LET d == dataitems(e.ln) IN <<int(d[3]), int(d[4])>>
\* a row with volume, slice, start and finish, without or with the echo column
Numbers(e) == \A n \in 1..Len(e.ln.items) : IntOk(e.ln.items[n])
EchoAbsent(e) == Len(e.ln.items) = 4 /\ Numbers(e)
EchoGiven(e) == Len(e.ln.items) = 5 /\ Numbers(e)

\* C4: every value of the acquisition map returned for an accepted INFO buffer
\* lies in [0, LastTime - FirstTime], and finish >= start in every cell written
\* by a data row.
C4_MapWithinScan ==
    (IsInfo /\ status = "returned") =>
        /\ \A c \in DOMAIN loc.traces.a : \A edge \in 1..2 :
              0 <= loc.traces.a[c][edge] /\ loc.traces.a[c][edge] <= loc.lasttime - loc.firsttime
        /\ \A j \in 1..Len(hist) :
              RowCell(hist[j]) \in DOMAIN loc.traces.a =>
                  loc.traces.a[RowCell(hist[j])][2] >= loc.traces.a[RowCell(hist[j])][1]

\* the step handles a data row
RowStep == hist' # hist
NewRow == hist'[Len(hist')]

\* C5: a data row without echo column that names the (volume, slice) of an
\* earlier row without echo column is accepted: the parse goes on and the cell
\* of echo 0 holds the start and finish of the later row.
C5_DefaultEchoRewrite ==
    [][(/\ IsInfo /\ RowStep /\ EchoAbsent(NewRow)
        /\ \E j \in 1..Len(hist) : EchoAbsent(hist[j]) /\ RowCell(hist[j]) = RowCell(NewRow))
       => (/\ status' = "parsing"
           /\ loc'.traces.alloc
           /\ loc'.traces.a[RowCell(NewRow)] = RowTimesOf(NewRow))]_vars

\* C6: while the parse has not failed, no row with an explicit echo index was
\* stored into a cell that an earlier row had written, whatever that row
\* stored: such a row is a hard error.
C6_CellWrittenOnce ==
    (IsInfo /\ status # "raised") =>
        \A i, j \in 1..Len(hist) :
            (i < j /\ (EchoAbsent(hist[i]) \/ EchoGiven(hist[i])) /\ EchoGiven(hist[j]))
                => RowCell(hist[i]) # RowCell(hist[j])

\* C7: the first data row handled while NumVolumes = 1 is stored in a map sized
\* with the corrected volume count (len(lines) - 11) / (NumSlices * NumEchoes),
\* when that count is a whole number of at least 1 (15 lines, 4 slices and 1
\* echo give 1).
C7_LegacyCorrection ==
    [][(/\ IsInfo /\ RowStep /\ hist = <<>>
        /\ {"nrvolumes", "nrslices"} \subseteq loc.bound
        /\ loc.nrvolumes = IntNum(1) /\ loc.nrslices >= 1 /\ loc.nrechoes >= 1
        /\ nlines - 11 >= loc.nrslices * loc.nrechoes
        /\ (nlines - 11) % (loc.nrslices * loc.nrechoes) = 0
        /\ (EchoAbsent(NewRow) \/ EchoGiven(NewRow)) /\ RowCell(NewRow)[3] < loc.nrechoes)
       => (/\ status' = "parsing"
           /\ loc'.traces.alloc
           /\ loc'.traces.dims[1] * (loc.nrslices * loc.nrechoes) = nlines - 11
           /\ loc'.traces.a[RowCell(NewRow)] = RowTimesOf(NewRow))]_vars

\* the relative timestamp, lane and value of a channel row
RowRel(e) == int(dataitems(e.ln)[1]) - loc.firsttime
RowLane(e) ==
    IF logdatatype = "ECG" THEN ListIndex(ECGChannels, dataitems(e.ln)[2]) - 1
    ELSE IF logdatatype = "EXT" THEN ListIndex(EXTChannels, dataitems(e.ln)[2]) - 1
    ELSE 0
RowValue(e) == int(dataitems(e.ln)[3])
Holds(e, i) == RowRel(e) <= i /\ i < RowRel(e) + e.sampletime

\* C8: after a single data row (t, lane, value) handled with SampleTime = k whose
\* hold interval [t - FirstTime, t - FirstTime + k) lies inside
\* [0, expectedSamples), the trace has expectedSamples ticks, the k ticks of the
\* interval equal value on the row's lane, and every other tick of every lane
\* is 0.
C8_SingleSampleHold ==
    (/\ ~IsInfo /\ status \in {"parsing", "returned"} /\ Len(hist) = 1
     /\ 0 <= RowRel(hist[1]) /\ RowRel(hist[1]) + hist[1].sampletime <= expectedsamples)
    => /\ loc.traces.alloc
       /\ \A c \in DOMAIN loc.traces.a :
             /\ DOMAIN loc.traces.a[c] = 0..(expectedsamples - 1)
             /\ \A i \in 0..(expectedsamples - 1) :
                   loc.traces.a[c][i] = IF c = RowLane(hist[1]) /\ Holds(hist[1], i)
                                        THEN RowValue(hist[1]) ELSE 0

\* C8 witness: one row with a nonzero value and SampleTime = 2 was handled, its
\* interval lies inside the trace, and the buffer was returned
C8_Witness ==
    /\ logdatatype = "EXT" /\ status = "returned" /\ Len(hist) = 1
    /\ hist[1].sampletime = 2 /\ RowValue(hist[1]) # 0 /\ RowLane(hist[1]) = 1
    /\ RowRel(hist[1]) = 1
    /\ loc.traces.a[1][1] = RowValue(hist[1]) /\ loc.traces.a[1][2] = RowValue(hist[1])

\* the value the last row of lane c holding tick i carries, 0 if there is none
LastHeld(c, i) ==
    LET js == {j \in 1..Len(hist) : RowLane(hist[j]) = c /\ Holds(hist[j], i)}
    IN  IF js = {} THEN 0
        ELSE RowValue(hist[CHOOSE j \in js : \A j2 \in js : j2 <= j])

\* C10: after the rows handled so far, lane c holds at tick i the value of the
\* last row of lane c whose hold interval [rel, rel + SampleTime) contains i,
\* and 0 if no row's interval contains i.
C10_LastWriteWins ==
    (~IsInfo /\ status \in {"parsing", "returned"} /\ loc.traces.alloc) =>
        \A c \in DOMAIN loc.traces.a : \A i \in 0..(expectedsamples - 1) :
            loc.traces.a[c][i] = LastHeld(c, i)

\* the value of lane c at tick i before a row is handled: zeros until the trace
\* is allocated
TickBefore(c, i) == IF loc.traces.alloc THEN loc.traces.a[c][i] ELSE 0

\* C11: a channel data row that is handled without an error changes no tick
\* outside its hold interval [rel, rel + SampleTime) cut to [0, expectedSamples),
\* and no tick of another lane; so a row stamped before FirstTime, or one whose
\* interval runs past the end of the trace, cannot set ticks elsewhere.
C11_HoldWriteInBounds ==
    [][(~IsInfo /\ RowStep /\ status' = "parsing")
       => \A c \in DOMAIN loc'.traces.a : \A i \in 0..(expectedsamples - 1) :
             (c # RowLane(NewRow) \/ ~Holds(NewRow, i))
                => loc'.traces.a[c][i] = TickBefore(c, i)]_vars

\* buffer fn holds the assignment varname = value
HasAssignment(fn, varname, value) ==
    \E n \in 1..Len(fn) :
        fn[n].kind = "assign" /\ fn[n].varname = varname /\ fn[n].items = <<value>>

\* readparsefile returned a result for the buffer of kind k
ParsedOk(k) ==
    IF k = "ACQUISITION_INFO" THEN files[k] # <<>> /\ pc \notin {"start", "INFO", "raised"}
    ELSE files[k] # <<>> /\ "UUID" \in chan[k].bound

\* C9: readparsefile returns a result only for a buffer that holds the
\* assignments LogVersion = EJA_1 and LogDataType = <the kind being parsed>.
C9_VersionAndTypeRequired ==
    \A k \in Kinds :
        ParsedOk(k) => /\ HasAssignment(files[k], "LogVersion", <<"E", "J", "A", "_", "1">>)
                       /\ HasAssignment(files[k], "LogDataType", Chars(k))

=============================================================================
